---- MODULE Spec2Model ----
(***************************************************************************)
(* A model of src/promiseFns/promisify.js: Bluebird.promisify,             *)
(* Bluebird.promisifyAll and the helpers they use, over a small JavaScript *)
(* heap (objects with ordered own properties and a prototype link).        *)
(*                                                                         *)
(* Property names are strings, so that `${key}${suffix}` is a real         *)
(* concatenation and the identifier grammar is a real test.  A JavaScript  *)
(* value is a record [t, v]: t is the type tag, v the literal (or, for an  *)
(* object, its identity in the heap).                                      *)
(***************************************************************************)
EXTENDS Integers, Sequences, FiniteSets, TLC

VARIABLES
    heap,      \* object identity -> object (the JavaScript heap)
    pre,       \* the heap as it was when the last promisifyAll call began
    promises,  \* the futures created by adapted calls, in creation order
    last       \* the last operation: its arguments and its outcome

vars == <<heap, pre, promises, last>>

(***************************************************************************)
(* Bounds of the model.                                                    *)
(***************************************************************************)
\* functions that promisifyAll calls may build on top of the initial heap
MaxBuilt == 3
\* method calls through the adapters promisifyAll installed
MaxCalls == 2
\* calls of a function Bluebird.promisify built
MaxFutures == 1
\* success values handed to a completion callback
MaxVals == 2

(***************************************************************************)
(* JavaScript values.                                                      *)
(***************************************************************************)
Undefined == [t |-> "undefined", v |-> ""]
Null == [t |-> "null", v |-> ""]
Num(s) == [t |-> "number", v |-> s]
Str(s) == [t |-> "string", v |-> s]
Bool(s) == [t |-> "boolean", v |-> s]
Obj(id) == [t |-> "object", v |-> id]
\* an abrupt completion (a thrown exception) carrying the thrown value's name
Thrown(s) == [t |-> "throw", v |-> s]
IsThrown(x) == x.t = "throw"

\* ToBoolean, as `err ? a : b` applies it
Truthy(x) ==
    ~ \/ x.t \in {"undefined", "null"}
      \/ x.t = "number" /\ x.v \in {"0", "NaN"}
      \/ x.t = "string" /\ x.v = ""
      \/ x.t = "boolean" /\ x.v = "false"

\* const USE_THIS = Symbol("USE_THIS")
USE_THIS == [t |-> "symbol", v |-> "USE_THIS"]

\* const FORBIDDEN_PROTOTYPES = [Array.prototype, Function.prototype, Object.prototype]
FORBIDDEN_PROTOTYPES == {"Array.prototype", "Function.prototype", "Object.prototype"}

(***************************************************************************)
(* Objects.  props is the ordered list of own string-keyed properties      *)
(* (Object.getOwnPropertyNames order); marked is the own IS_PROMISIFIED    *)
(* symbol property; body says what calling the object does; thisAssign     *)
(* says whether its source text matches THIS_ASSIGNMENT_PATTERN; fn,       *)
(* context, multiArgs and dynamicLookupKey are the closure variables of a  *)
(* function built by promisifyFunction.                                    *)
(***************************************************************************)
Data(n, x) == [name |-> n, kind |-> "data", value |-> x]
Accessor(n) == [name |-> n, kind |-> "accessor", value |-> Undefined]

PlainObject(proto, props) ==
    [proto |-> proto, props |-> props, callable |-> FALSE, marked |-> FALSE,
     body |-> "none", thisAssign |-> FALSE,
     fn |-> Undefined, context |-> Undefined, multiArgs |-> FALSE,
     dynamicLookupKey |-> ""]

\* a function; arrow functions and methods have no own `prototype`
Function(proto, name, body, props) ==
    [proto |-> proto,
     props |-> <<Data("length", Num("1")), Data("name", Str(name))>> \o props,
     callable |-> TRUE, marked |-> FALSE, body |-> body, thisAssign |-> FALSE,
     fn |-> Undefined, context |-> Undefined, multiArgs |-> FALSE,
     dynamicLookupKey |-> ""]

IsObject(h, x) == x.t = "object" /\ x.v \in DOMAIN h
\* typeof x === 'function'
IsFunction(h, x) == IsObject(h, x) /\ h[x.v].callable

OwnNames(h, id) == [i \in 1..Len(h[id].props) |-> h[id].props[i].name]

HasOwn(h, id, name) == \E i \in 1..Len(h[id].props) : h[id].props[i].name = name

\* Object.getOwnPropertyDescriptor(obj, name), for a name the object owns
OwnDesc(h, id, name) ==
    h[id].props[CHOOSE i \in 1..Len(h[id].props) : h[id].props[i].name = name]

RECURSIVE GetFrom(_, _, _)
GetFrom(h, id, name) ==
    IF id \notin DOMAIN h THEN Undefined
    ELSE IF HasOwn(h, id, name)
         THEN LET d == OwnDesc(h, id, name)
              IN IF d.kind = "data" THEN d.value ELSE Undefined
         ELSE GetFrom(h, h[id].proto, name)

\* x[name]: a TypeError on undefined and null, a walk of the chain otherwise
Get(h, x, name) ==
    IF x.t \in {"undefined", "null"} THEN Thrown("TypeError")
    ELSE IF x.t = "object" THEN GetFrom(h, x.v, name)
    ELSE Undefined

RECURSIVE InheritedAccessor(_, _, _)
InheritedAccessor(h, id, name) ==
    IF id \notin DOMAIN h THEN FALSE
    ELSE IF HasOwn(h, id, name) THEN OwnDesc(h, id, name).kind = "accessor"
    ELSE InheritedAccessor(h, h[id].proto, name)

\* obj[name] = x on an ordinary object: an accessor found first on the chain
\* takes the write (its setter stores nothing); otherwise the own data
\* property is overwritten in place or appended
SetProp(h, id, name, x) ==
    IF InheritedAccessor(h, id, name) THEN h
    ELSE IF HasOwn(h, id, name)
         THEN [h EXCEPT ![id].props =
                  [i \in 1..Len(@) |->
                      IF @[i].name = name THEN Data(name, x) ELSE @[i]]]
         ELSE [h EXCEPT ![id].props = Append(@, Data(name, x))]

(***************************************************************************)
(* The helpers of promisify.js.                                            *)
(***************************************************************************)
Letters ==
    {"a", "b", "c", "d", "e", "f", "g", "h", "i", "j", "k", "l", "m",
     "n", "o", "p", "q", "r", "s", "t", "u", "v", "w", "x", "y", "z",
     "A", "B", "C", "D", "E", "F", "G", "H", "I", "J", "K", "L", "M",
     "N", "O", "P", "Q", "R", "S", "T", "U", "V", "W", "X", "Y", "Z"}
Digits == {"0", "1", "2", "3", "4", "5", "6", "7", "8", "9"}

charAt(name, i) == IF i <= Len(name) THEN SubSeq(name, i, i) ELSE ""

\* IDENTIFIER_REGEX = /^[a-z$_][a-z$_0-9]*$/i
IdentifierStart == Letters \cup {"$", "_"}
IdentifierPart == IdentifierStart \cup Digits
isIdentifier(name) ==
    /\ Len(name) >= 1
    /\ charAt(name, 1) \in IdentifierStart
    /\ \A i \in 2..Len(name) : charAt(name, i) \in IdentifierPart

defaultFilter(name) ==
    /\ isIdentifier(name)
    /\ charAt(name, 1) # "_"
    /\ name # "constructor"

\* fn[IS_PROMISIFIED]: the marker is looked up along the chain; a primitive
\* carries none
RECURSIVE MarkedFrom(_, _)
MarkedFrom(h, id) ==
    IF id \notin DOMAIN h THEN FALSE
    ELSE h[id].marked \/ MarkedFrom(h, h[id].proto)

isPromisified(h, fn) == IsObject(h, fn) /\ MarkedFrom(h, fn.v)

\* hasPromisified looking at the key itself, not at key + suffix
hasPromisified_noSuffix(h, obj, key, suffix) ==
    IF ~ HasOwn(h, obj.v, key) THEN FALSE
    ELSE LET desc == OwnDesc(h, obj.v, key)
         IN IF desc.kind = "accessor" THEN TRUE
            ELSE isPromisified(h, desc.value)

hasPromisified(h, obj, key, suffix) ==
    IF ~ HasOwn(h, obj.v, key \o suffix) THEN FALSE
    ELSE LET desc == OwnDesc(h, obj.v, key \o suffix)
         IN IF desc.kind = "accessor" THEN TRUE
            ELSE isPromisified(h, desc.value)

\* a caller's filter(key, fn, obj, passesDefaultFilter): none given,
\* () => false, or () => true
Filters == {"none", "rejectAll", "acceptAll"}
CallFilter(filter, key, fn, obj, passes) == filter = "acceptAll"

shouldPromisify(h, key, suffix, obj, filter) ==
    LET fn == Get(h, obj, key)
        passesFilter == defaultFilter(key)
    IN /\ IsFunction(h, fn)
       /\ ~ (isPromisified(h, fn) \/ hasPromisified(h, obj, key, suffix))
       /\ IF filter # "none" THEN CallFilter(filter, key, fn, obj, passesFilter)
          ELSE passesFilter

\* the for loop over one link's own names
RECURSIVE ScanKeys(_, _, _, _)
ScanKeys(h, id, i, acc) ==
    IF i > Len(h[id].props) THEN acc
    ELSE LET d == h[id].props[i]
         IN IF d.name \in acc.visitedKeys THEN ScanKeys(h, id, i + 1, acc)
            ELSE ScanKeys(h, id, i + 1,
                    [visitedKeys |-> acc.visitedKeys \cup {d.name},
                     foundKeys |-> IF d.kind = "data"
                                   THEN Append(acc.foundKeys, d.name)
                                   ELSE acc.foundKeys])

\* the while loop over the chain
RECURSIVE WalkChain(_, _, _)
WalkChain(h, id, acc) ==
    IF id \notin DOMAIN h \/ id \in FORBIDDEN_PROTOTYPES THEN acc.foundKeys
    ELSE WalkChain(h, h[id].proto, ScanKeys(h, id, 1, acc))

inheritedDataKeys(h, obj) ==
    IF obj.t # "object" THEN <<>>
    ELSE WalkChain(h, obj.v, [visitedKeys |-> {}, foundKeys |-> <<>>])

isClass(h, fn) ==
    IF ~ IsFunction(h, fn) THEN FALSE
    ELSE LET p == Get(h, fn, "prototype")
         IN IF ~ IsObject(h, p) THEN FALSE   \* getOwnPropertyNames throws: caught
            ELSE LET keys == OwnNames(h, p.v)
                     hasMethods == Len(keys) > 1
                     hasMethodsOtherThanConstructor ==
                         Len(keys) > 0 /\ ~ (Len(keys) = 1 /\ keys[1] = "constructor")
                     hasThisAssignmentAndStaticMethods ==
                         h[fn.v].thisAssign /\ Len(OwnNames(h, fn.v)) > 0
                 IN \/ hasMethods
                    \/ hasMethodsOtherThanConstructor
                    \/ hasThisAssignmentAndStaticMethods

getFunctionsToPromisify(h, obj, suffix, filter) ==
    LET Keep(key) == shouldPromisify(h, key, suffix, obj, filter)
    IN SelectSeq(inheritedDataKeys(h, obj), Keep)

(***************************************************************************)
(* Building adapted functions.                                             *)
(***************************************************************************)
\* the identity of the next object to be allocated
FreshId(h) == "fn" \o ToString(Cardinality(DOMAIN h))

Extend(h, id, o) == [x \in DOMAIN h \cup {id} |-> IF x = id THEN o ELSE h[x]]

\* promisifyFunction({ fn, context, multiArgs, dynamicLookupKey }): allocates
\* promisifiedFunction (a function expression, so with a prototype object
\* of its own), closes over the four variables and sets the marker
promisifyFunction(h, fn, context, multiArgs, dynamicLookupKey) ==
    LET id == FreshId(h)
        pid == id \o ".prototype"
        promisifiedFunction ==
            [proto |-> "Function.prototype",
             props |-> <<Data("length", Num("0")), Data("name", Str("promisifiedFunction")),
                         Data("prototype", Obj(pid))>>,
             callable |-> TRUE, marked |-> TRUE, body |-> "adapter",
             thisAssign |-> FALSE,
             fn |-> fn, context |-> context, multiArgs |-> multiArgs,
             dynamicLookupKey |-> dynamicLookupKey]
        h1 == Extend(h, pid, PlainObject("Object.prototype",
                                         <<Data("constructor", Obj(id))>>))
    IN [heap |-> Extend(h1, id, promisifiedFunction), value |-> Obj(id)]

\* a caller's promisifier(fn, defaultPromisifier): "thunk" returns
\* defaultPromisifier(), "custom" returns a new function of its own (an
\* arrow function; the default one is never built)
Promisifiers == {"none", "thunk", "custom"}
CallPromisifier(h, promisifier, fn, multiArgs, key) ==
    IF promisifier = "thunk"
    THEN promisifyFunction(h, fn, USE_THIS, multiArgs, key)
    ELSE LET id == FreshId(h)
         IN [heap |-> Extend(h, id, Function("Function.prototype", "custom", "async", <<>>)),
             value |-> Obj(id)]

\* the body of the for loop of internalPromisifyAll, from the i-th key on
RECURSIVE InstallKeys(_, _, _, _, _, _, _)
InstallKeys(h, obj, functionKeys, i, suffix, promisifier, multiArgs) ==
    IF i > Len(functionKeys) THEN h
    ELSE LET key == functionKeys[i]
             promisified ==
                 IF promisifier # "none"
                 THEN CallPromisifier(h, promisifier, Get(h, obj, key), multiArgs, key)
                 ELSE promisifyFunction(h, Get(h, obj, key), USE_THIS, multiArgs, key)
         IN InstallKeys(SetProp(promisified.heap, obj.v, key \o suffix, promisified.value),
                        obj, functionKeys, i + 1, suffix, promisifier, multiArgs)

\* internalPromisifyAll has no return statement: it returns undefined.  The
\* filter it is given is not handed on to getFunctionsToPromisify, whose
\* third parameter is then undefined
internalPromisifyAll(h, obj, suffix, filter, promisifier, multiArgs) ==
    LET functionKeys == getFunctionsToPromisify(h, obj, suffix, "none")
    IN [heap |-> InstallKeys(h, obj, functionKeys, 1, suffix, promisifier, multiArgs),
        value |-> Undefined]

\* the first for loop of promisifyAll, from the i-th key on
RECURSIVE ConvertClasses(_, _, _, _, _, _, _, _)
ConvertClasses(h, obj, keys, i, suffix, filter, promisifier, multiArgs) ==
    IF i > Len(keys) THEN h
    ELSE LET key == keys[i]
             fn == Get(h, obj, key)
         IN IF key # "constructor" /\ isClass(h, fn)
            THEN LET h1 == internalPromisifyAll(h, Get(h, fn, "prototype"), suffix,
                                                filter, promisifier, multiArgs).heap
                     h2 == internalPromisifyAll(h1, fn, suffix, filter, promisifier,
                                                multiArgs).heap
                 IN ConvertClasses(h2, obj, keys, i + 1, suffix, filter, promisifier,
                                   multiArgs)
            ELSE ConvertClasses(h, obj, keys, i + 1, suffix, filter, promisifier,
                                multiArgs)

\* Bluebird.promisifyAll(obj, { multiArgs, suffix, filter, promisifier }): the
\* heap it leaves, and what it returns or throws.  The context option is
\* destructured and never read, so it is no parameter here; suffix is always
\* a string
promisifyAll(h, obj, suffix, filter, promisifier, multiArgs) ==
    IF ~ isIdentifier(suffix)
    THEN [heap |-> h, value |-> Thrown("RangeError")]
    ELSE LET keys == inheritedDataKeys(h, obj)
             h1 == ConvertClasses(h, obj, keys, 1, suffix, filter, promisifier, multiArgs)
         IN internalPromisifyAll(h1, obj, suffix, filter, promisifier, multiArgs)

(***************************************************************************)
(* Calling an adapted function.                                            *)
(***************************************************************************)
\* the value a thrown exception carries
ErrorValue(x) == [t |-> "error", v |-> x.v]

NoPromise == [state |-> "none", kind |-> "none", items |-> <<>>,
              held |-> FALSE, multiArgs |-> FALSE]

\* Bluebird.all(values) on values that are not futures themselves: the
\* future of the array of the same values, in the same order
BluebirdAll(values) == [i \in 1..Len(values) |-> values[i]]

\* createResolver with the error test left out of the multiArgs branch
createResolver_noErrorTest(multiArgs, err, values) ==
    IF multiArgs
    THEN [state |-> "resolved", kind |-> "array", items |-> BluebirdAll(values)]
    ELSE IF Truthy(err)
         THEN [state |-> "rejected", kind |-> "value", items |-> <<err>>]
         ELSE [state |-> "resolved", kind |-> "value",
               items |-> <<IF Len(values) >= 1 THEN values[1] ELSE Undefined>>]

\* createResolver resolving with the first value whatever multiArgs is
createResolver_firstOnly(multiArgs, err, values) ==
    IF Truthy(err)
    THEN [state |-> "rejected", kind |-> "value", items |-> <<err>>]
    ELSE [state |-> "resolved", kind |-> "value",
          items |-> <<IF Len(values) >= 1 THEN values[1] ELSE Undefined>>]

\* createResolver({ resolve, reject, multiArgs }) called as (err, ...values):
\* which of resolve and reject it calls, and with what
createResolver(multiArgs, err, values) ==
    IF multiArgs
    THEN IF Truthy(err)
         THEN [state |-> "rejected", kind |-> "value", items |-> <<err>>]
         ELSE [state |-> "resolved", kind |-> "array", items |-> BluebirdAll(values)]
    ELSE LET value == IF Len(values) >= 1 THEN values[1] ELSE Undefined
         IN IF Truthy(err)
            THEN [state |-> "rejected", kind |-> "value", items |-> <<err>>]
            ELSE [state |-> "resolved", kind |-> "value", items |-> <<value>>]

\* resolve and reject of a future act on a pending future only
Settle(p, s) ==
    IF p.state = "pending"
    THEN [p EXCEPT !.state = s.state, !.kind = s.kind, !.items = s.items]
    ELSE p

\* fn.apply(context, [...args, resolver]): a value that is no function and
\* a class constructor called without new throw a TypeError, a function
\* whose body throws throws its Error, and an asynchronous operation
\* returns undefined and keeps the resolver
Apply(h, fn, context) ==
    IF ~ IsFunction(h, fn) THEN Thrown("TypeError")
    ELSE IF h[fn.v].body = "none" THEN Thrown("TypeError")
    ELSE IF h[fn.v].body = "throws" THEN Thrown("Error")
    ELSE Undefined

\* fn.apply(...) made before, and outside, the construction of the future
NewBluebird_applyOutside(applied, multiArgs) ==
    IF IsThrown(applied)
    THEN [threw |-> TRUE, error |-> ErrorValue(applied), promise |-> NoPromise]
    ELSE [threw |-> FALSE, error |-> Undefined,
          promise |-> [state |-> "pending", kind |-> "none", items |-> <<>>,
                       held |-> TRUE, multiArgs |-> multiArgs]]

\* return new Bluebird((resolve, reject) => { ...; return fn.apply(...) }),
\* given how fn.apply completed: the constructor turns an exception of its
\* executor into the rejection of the future it returns
NewBluebird(applied, multiArgs) ==
    IF IsThrown(applied)
    THEN [threw |-> FALSE, error |-> Undefined,
          promise |-> [state |-> "rejected", kind |-> "value",
                       items |-> <<ErrorValue(applied)>>, held |-> FALSE,
                       multiArgs |-> multiArgs]]
    ELSE [threw |-> FALSE, error |-> Undefined,
          promise |-> [state |-> "pending", kind |-> "none", items |-> <<>>,
                       held |-> TRUE, multiArgs |-> multiArgs]]

\* promisifiedFunction called with `this`: g is the function's identity.
\* context and fn are the closure's variables, and both are assigned to
promisifiedFunction(h, g, this) ==
    LET context == IF h[g].context = USE_THIS THEN this ELSE h[g].context
        h1 == [h EXCEPT ![g].context = context]
        fn == IF h[g].dynamicLookupKey # ""
              THEN Get(h1, context, h[g].dynamicLookupKey)
              ELSE h[g].fn
    IN IF IsThrown(fn)
       THEN [heap |-> h1, threw |-> TRUE, error |-> ErrorValue(fn),
             promise |-> NoPromise, this |-> context, fn |-> Undefined]
       ELSE LET h2 == [h1 EXCEPT ![g].fn = fn]
                made == NewBluebird(Apply(h2, fn, context), h[g].multiArgs)
            IN [heap |-> h2, threw |-> made.threw, error |-> made.error,
                promise |-> made.promise, this |-> context, fn |-> fn]

(***************************************************************************)
(* The program under the model: a library object `lib` holding a class     *)
(* Base (method m), a subclass Sub that lib does not hold, one instance of *)
(* each, and three callback-style functions: fM and fN complete later      *)
(* through their callback, fT throws before it returns.                    *)
(***************************************************************************)
InitHeap ==
    [id \in {"Base.prototype", "Base", "Sub.prototype", "Sub", "lib", "b", "s",
             "fM", "fN", "fT"} |->
        CASE id = "Base.prototype" ->
                 PlainObject("Object.prototype",
                             <<Data("constructor", Obj("Base")), Data("m", Obj("fM"))>>)
          [] id = "Base" ->
                 Function("Function.prototype", "Base", "none",
                          <<Data("prototype", Obj("Base.prototype"))>>)
          [] id = "Sub.prototype" ->
                 PlainObject("Base.prototype", <<Data("constructor", Obj("Sub"))>>)
          [] id = "Sub" ->
                 Function("Base", "Sub", "none",
                          <<Data("prototype", Obj("Sub.prototype"))>>)
          [] id = "lib" ->
                 PlainObject("Object.prototype",
                             <<Data("Base", Obj("Base")), Data("_h", Obj("fM")),
                               Data("h", Obj("fN")), Accessor("hAsync"),
                               Data("version", Num("3"))>>)
          [] id = "b" -> PlainObject("Base.prototype", <<>>)
          [] id = "s" -> PlainObject("Sub.prototype", <<>>)
          [] id = "fM" -> Function("Function.prototype", "fM", "async", <<>>)
          [] id = "fN" -> Function("Function.prototype", "fN", "async", <<>>)
          [] id = "fT" -> Function("Function.prototype", "fT", "throws", <<>>)]

NoHeap == [id \in {} |-> PlainObject("null", <<>>)]

Idle ==
    [op |-> "init", obj |-> Undefined, suffix |-> "", filter |-> "none",
     promisifier |-> "none", value |-> Undefined, receiver |-> Undefined,
     g |-> "", this |-> Undefined, fn |-> Undefined, threw |-> FALSE,
     call |-> 0, err |-> Undefined, values |-> <<>>, first |-> FALSE]

\* the inputs the actions draw from
Targets == {Obj("lib"), Obj("Sub.prototype")}
\* user code on Sub.prototype: an override of m, and a property of the
\* caller's own under the name an adapter would take
Assignments == {<<"m", Obj("fN")>>, <<"mAsync", Num("5")>>}
Receivers == {Obj("b"), Obj("s")}
Wrapped == {Obj("fM"), Obj("fT")}
Contexts == {USE_THIS, Obj("lib")}
Errors == {Undefined, Null, Num("0"), Str(""), Bool("false"), [t |-> "error", v |-> "boom"]}
\* the callback's success values: n distinct values, so that their order shows
ValueLists == {[i \in 1..n |-> Num(ToString(i))] : n \in 0..MaxVals}
\* the options of a promisifyAll call: <<filter, promisifier>>
Options == {<<"none", "none">>, <<"rejectAll", "none">>, <<"none", "thunk">>,
            <<"none", "custom">>}

\* the adapted functions of the heap: built by promisify (no lookup key) or
\* installed by promisifyAll
Adapters(h) == {id \in DOMAIN h : h[id].body = "adapter"}
Promisified(h) == {id \in Adapters(h) : h[id].dynamicLookupKey = ""}
\* the functions allocated since the initial heap
Built(h) == {id \in DOMAIN h \ DOMAIN InitHeap : h[id].callable}

Init ==
    /\ heap = InitHeap
    /\ pre = NoHeap
    /\ promises = <<>>
    /\ last = Idle

\* Bluebird.promisifyAll(obj, { suffix, filter, promisifier, multiArgs })
PromisifyAll(obj, suffix, filter, promisifier, multiArgs) ==
    LET r == promisifyAll(heap, obj, suffix, filter, promisifier, multiArgs)
    IN /\ Cardinality(Built(r.heap)) <= MaxBuilt
       /\ heap' = r.heap
       /\ pre' = heap
       /\ last' = [Idle EXCEPT !.op = "promisifyAll", !.obj = obj, !.suffix = suffix,
                               !.filter = filter, !.promisifier = promisifier,
                               !.value = r.value]
       /\ UNCHANGED promises

\* user code: Sub.prototype[name] = x (an override, or a property of the
\* caller's own)
Assign(name, x) ==
    /\ heap' = SetProp(heap, "Sub.prototype", name, x)
    /\ heap' # heap
    /\ pre' = NoHeap
    /\ last' = [Idle EXCEPT !.op = "assign"]
    /\ UNCHANGED promises

\* g called with `this` = receiver; at most max futures are created.  The
\* function found by the lookup is user code, never another adapter
Call(g, receiver, max) ==
    LET r == promisifiedFunction(heap, g, receiver)
    IN /\ Len(promises) < max
       /\ ~ (IsFunction(heap, r.fn) /\ heap[r.fn.v].body = "adapter")
       /\ heap' = r.heap
       /\ promises' = IF r.threw THEN promises ELSE Append(promises, r.promise)
       /\ pre' = NoHeap
       /\ last' = [Idle EXCEPT !.op = "call", !.receiver = receiver, !.g = g,
                               !.this = r.this, !.fn = r.fn, !.threw = r.threw,
                               !.value = r.error,
                               !.call = IF r.threw THEN 0 ELSE Len(promises) + 1]

\* receiver.mAsync(...): a method call through an instance
InvokeMethod(receiver, name) ==
    LET g == Get(heap, receiver, name)
    IN /\ IsFunction(heap, g)
       /\ g.v \in Adapters(heap)
       /\ Call(g.v, receiver, MaxCalls)

\* g.call(receiver, ...), g built by Bluebird.promisify
InvokeFunction(g, receiver) ==
    /\ g \in Promisified(heap)
    /\ Call(g, receiver, MaxFutures)

\* the wrapped operation calls the completion callback it was handed
Callback(i, err, values) ==
    /\ i \in 1..Len(promises)
    /\ promises[i].held
    /\ promises' = [promises EXCEPT
                       ![i] = Settle(@, createResolver(@.multiArgs, err, values))]
    /\ pre' = NoHeap
    /\ last' = [Idle EXCEPT !.op = "callback", !.call = i, !.err = err,
                               !.values = values,
                               !.first = (promises[i].state = "pending")]
    /\ UNCHANGED heap

Next ==
    \/ \E obj \in Targets, o \in Options :
          PromisifyAll(obj, "Async", o[1], o[2], FALSE)
    \/ PromisifyAll(Obj("lib"), "1x", "none", "none", FALSE)
    \/ \E a \in Assignments : Assign(a[1], a[2])
    \/ \E receiver \in Receivers : InvokeMethod(receiver, "mAsync")

Spec == Init /\ [][Next]_vars

(***************************************************************************)
(* The single-function entry point: Bluebird.promisify(fn, { context,      *)
(* multiArgs }) builds g, g is called, and the wrapped operation calls the *)
(* completion callback.                                                    *)
(***************************************************************************)
\* Bluebird.promisify(fn, { context = USE_THIS, multiArgs = false })
promisify(h, fn, context, multiArgs) ==
    promisifyFunction(h, fn, context, multiArgs, "")

InitCall ==
    /\ \E fn \in Wrapped, context \in Contexts, multiArgs \in BOOLEAN :
          heap = promisify(InitHeap, fn, context, multiArgs).heap
    /\ pre = NoHeap
    /\ promises = <<>>
    /\ last = Idle

NextCall ==
    \/ \E g \in DOMAIN heap, receiver \in Receivers : InvokeFunction(g, receiver)
    \/ \E i \in 1..MaxFutures, err \in Errors, values \in ValueLists :
          Callback(i, err, values)

SpecCall == InitCall /\ [][NextCall]_vars

(***************************************************************************)
(* Properties.  Spec covers promisifyAll, user assignments and method      *)
(* calls; SpecCall covers promisify, calls and completion callbacks.       *)
(***************************************************************************)
IsCall == last.op = "call"
\* the last call went through an adapter promisifyAll installed: all of
\* them are built with context USE_THIS and a lookup key
ViaInstalled == IsCall /\ heap[last.g].dynamicLookupKey # ""

\* C1: every call of an adapter built with the default context runs the
\* underlying function with the receiver of that call as `this`, whatever
\* receivers earlier calls went through.
C1_ThisIsReceiver == ViaInstalled => last.this = last.receiver

\* C2: every call of an installed adapter dispatches to the function stored
\* at its key on the receiver of that call, also when the same adapter was
\* called through another receiver before.
C2_DispatchesOnReceiver ==
    (ViaInstalled /\ ~ last.threw) =>
        last.fn = Get(heap, last.receiver, heap[last.g].dynamicLookupKey)

FirstCallback == last.op = "callback" /\ last.first
Present(x) == x.t \notin {"undefined", "null"}

\* C3 (as claimed): a first callback with an error other than null and
\* undefined, falsy ones included, rejects the future with that error.
C3_PresentErrorRejects ==
    (FirstCallback /\ Present(last.err)) =>
        /\ promises[last.call].state = "rejected"
        /\ promises[last.call].items = <<last.err>>

\* C3 (amended): a first callback rejects the future, with exactly the
\* error it was given, iff that error is truthy; a falsy error (0, false,
\* the empty string, null, undefined) resolves it.
C3_TruthyErrorRejects ==
    FirstCallback =>
        IF Truthy(last.err)
        THEN /\ promises[last.call].state = "rejected"
             /\ promises[last.call].items = <<last.err>>
        ELSE promises[last.call].state = "resolved"

C3_Witness ==
    /\ FirstCallback
    /\ Truthy(last.err)
    /\ Len(last.values) > 0
    /\ promises[last.call].multiArgs
    /\ promises[last.call].state = "rejected"

\* C4: a first callback with an absent error and values v1..vn resolves the
\* future with v1 alone (undefined when n = 0) when multiArgs is false, and
\* with the sequence v1..vn in that order when multiArgs is true.
C4_AbsentErrorResolves ==
    (FirstCallback /\ ~ Present(last.err)) =>
        LET p == promises[last.call]
        IN /\ p.state = "resolved"
           /\ IF p.multiArgs
              THEN p.kind = "array" /\ p.items = last.values
              ELSE /\ p.kind = "value"
                   /\ p.items = <<IF last.values = <<>> THEN Undefined
                                  ELSE Head(last.values)>>

C4_Witness ==
    /\ FirstCallback
    /\ ~ Present(last.err)
    /\ Len(last.values) >= 2
    /\ promises[last.call].multiArgs
    /\ promises[last.call].items = last.values

IsPromisifyAll == last.op = "promisifyAll"
Completed == IsPromisifyAll /\ ~ IsThrown(last.value)

\* C5: promisifyAll with a suffix matching the identifier grammar completes
\* and returns the object it was given.
C5_ReturnsObj ==
    (IsPromisifyAll /\ isIdentifier(last.suffix)) => last.value = last.obj

\* C6: a second promisifyAll call with the same object and options, right
\* after the first, adds no property and replaces no property value.
C6_Idempotent ==
    [][(/\ Completed
        /\ last'.op = "promisifyAll"
        /\ last'.obj = last.obj
        /\ last'.suffix = last.suffix
        /\ last'.filter = last.filter
        /\ last'.promisifier = last.promisifier)
       => \A id \in DOMAIN heap : heap'[id].props = heap[id].props]_vars

\* C7: the verdict of a caller's filter is authoritative; a filter that
\* rejects every key leaves every object without a new adapter.
C7_FilterAuthoritative ==
    (Completed /\ last.filter = "rejectAll") =>
        \A id \in DOMAIN pre : heap[id].props = pre[id].props

\* C9: a promisifyAll call only adds own properties: every own property
\* that existed before the call is there after it, with the same value.
C9_Frame ==
    IsPromisifyAll =>
        \A id \in DOMAIN pre : \A i \in 1..Len(pre[id].props) :
            /\ HasOwn(heap, id, pre[id].props[i].name)
            /\ OwnDesc(heap, id, pre[id].props[i].name) = pre[id].props[i]

\* the last call applied a function whose body throws before it returns
ThrowingCall ==
    IsCall /\ IsFunction(heap, last.fn) /\ heap[last.fn.v].body = "throws"

OwnUnchanged(id, name) ==
    /\ HasOwn(heap, id, name) = HasOwn(pre, id, name)
    /\ HasOwn(pre, id, name) => OwnDesc(heap, id, name) = OwnDesc(pre, id, name)

\* x carries the conversion marker
Marked(h, x) == x.t = "object" /\ x.v \in DOMAIN h /\ h[x.v].marked

\* object id owns a property `name` that is an accessor or holds a marked
\* function
OwnConvertedSibling(h, id, name) ==
    \E i \in 1..Len(h[id].props) :
        /\ h[id].props[i].name = name
        /\ \/ h[id].props[i].kind = "accessor"
           \/ Marked(h, h[id].props[i].value)

\* C10 (as claimed): a candidate key whose value is marked, or that has a
\* marked sibling reachable at key + suffix on the owner, own or inherited,
\* is skipped: the owner's own key + suffix is left as it was.
C10_ReachableSiblingSkipped ==
    Completed =>
        \A id \in DOMAIN pre :
            LET keys == inheritedDataKeys(pre, Obj(id))
            IN \A i \in 1..Len(keys) :
                  (\/ Marked(pre, GetFrom(pre, id, keys[i]))
                   \/ Marked(pre, GetFrom(pre, id, keys[i] \o last.suffix)))
                  => OwnUnchanged(id, keys[i] \o last.suffix)

\* C10 (amended): a candidate key whose value is marked, or whose owner has
\* an own property key + suffix that is an accessor or holds a marked
\* function, is skipped: the owner's own key + suffix is left as it was.
C10_OwnSiblingSkipped ==
    Completed =>
        \A id \in DOMAIN pre :
            LET keys == inheritedDataKeys(pre, Obj(id))
            IN \A i \in 1..Len(keys) :
                  (\/ Marked(pre, GetFrom(pre, id, keys[i]))
                   \/ OwnConvertedSibling(pre, id, keys[i] \o last.suffix))
                  => OwnUnchanged(id, keys[i] \o last.suffix)

\* a call on an owner that already held the marked sibling of its method m
C10_Witness ==
    /\ Completed
    /\ last.obj = Obj("Sub.prototype")
    /\ IsFunction(pre, GetFrom(pre, "Sub.prototype", "m"))
    /\ HasOwn(pre, "Sub.prototype", "mAsync")
    /\ Marked(pre, OwnDesc(pre, "Sub.prototype", "mAsync").value)
    /\ OwnUnchanged("Sub.prototype", "mAsync")

====
